---- MODULE Spec2Model ----
(***************************************************************************)
(* The Falcon Event Stream event-source plugin, in its two revisions:      *)
(*   "eda"    src/extensions/eda/plugins/event_source/eventstream.py       *)
(*   "legacy" src/plugins/event_source/eventstream.py                      *)
(* main() is one coroutine: pc is its position (the position inside the    *)
(* generator Stream.stream_events included), cur the index of the stream   *)
(* the for loop is at.  The backend (token endpoint, discovery, the        *)
(* long-lived bodies), the clock and the consumer of the queue are the     *)
(* environment.                                                            *)
(***************************************************************************)
EXTENDS Integers, Sequences, FiniteSets, TLC

VARIABLES
    plugin,         \* which revision runs: "eda" or "legacy"
    args,           \* the event_source arguments main() is called with
    pc,             \* position of the main coroutine
    cur,            \* index in streams of the stream the for loop is at
    error,          \* the exception last raised ("" when none)
    falcon_session, \* AIOFalconAPI.session: "none", "open", "closed"
    streams,        \* main's list of Stream objects
    gen,            \* state of each stream's stream_events generator
    conns,          \* every GET response opened on the data feed
    line,           \* the line last read from the body
    queue,          \* the bounded asyncio.Queue of the rule engine
    now,            \* int(time.time())
    putlog,         \* history: every queue.put, in order
    calls,          \* history: per stream, the calls made so far
    lines_sent,     \* history: lines the backend has sent in this run
    api_calls,      \* history: the calls made on the AIOFalconAPI client
    hg,             \* plugins/modules/host_group.py: backend, parameters, runs
    sd,             \* plugins/modules/sensor_download.py: concurrent instances
    ns,             \* plugins/modules/ngsiem_search.py: wait_for_completion
    pg              \* plugins/module_utils/falconpy_utils.py: pagination loop

\* The state of the event source plugins, and the state of the modules.
eventstream == <<plugin, args, pc, cur, error, falcon_session, streams, gen,
                 conns, line, queue, now, putlog, calls, lines_sent, api_calls>>
modules == <<hg, sd, ns, pg>>

vars == <<eventstream, modules>>

----------------------------------------------------------------------------
(* Bounds of the model *)

MaxStreams == 2
MaxLines == 2
QueueSize == 1

\* The offsets the backend's events carry, the interval it advertises and
\* the clock readings at which the program is observed: the start, the
\* instant epoch + refresh_interval - 60 of a session begun at 0, and the
\* second after it.
Offsets == {1, 2}
RefreshIntervals == {1800}
\* refresh_interval is int(stream["refreshActiveSessionInterval"]) as the
\* backend sent it, unchecked: the usual 1800 and a short one.
AdvertisedIntervals == RefreshIntervals \cup {30}
Instants == {0, 1740, 1741}
\* For the legacy plugin: the start, an instant past its expiry boundary and
\* the instant refresh_interval seconds after a request sent at 0.
InstantsLegacy == {0, 1740, 1800}
InstantsOf(p) == IF p = "eda" THEN Instants ELSE InstantsLegacy

EventTypes == {"A", "B"}
IncludeChoices == {<<>>, <<"A">>}
ExcludeChoices == {<<>>, <<"A">>}
OffsetChoices == {<<>>, <<0>>, <<1>>}
Clouds == {"us-1", "mars-1"}

Range(s) == {s[k] : k \in DOMAIN s}

----------------------------------------------------------------------------
(* Program constants and pure functions *)

REGIONS == {"us-1", "us-2", "eu-1", "us-gov-1"}

\* Python truthiness of Optional[int]: None and 0 are falsy.
\* None is <<>>, the integer n is <<n>>.
Truthy(offset) == offset # <<>> /\ offset[1] # 0

GracePeriodEda == 60
GracePeriodLegacy == 29 * 60
GracePeriod(p) == IF p = "eda" THEN GracePeriodEda ELSE GracePeriodLegacy

\* Stream.__init__: the Stream built from one discovered descriptor.
\* spigot = 0 is None; otherwise it is the index of the response in conns.
Stream(p, offset, latest, include_event_types, descriptor) ==
    [ partition           |-> descriptor.partition,
      token               |-> descriptor.token,
      offset              |-> IF p = "eda"
                              THEN (IF Truthy(offset) THEN offset[1] ELSE 0)
                              ELSE offset[1],
      latest              |-> IF p = "eda" THEN latest ELSE FALSE,
      include_event_types |-> include_event_types,
      epoch               |-> descriptor.time,
      refresh_interval    |-> descriptor.refreshActiveSessionInterval,
      spigot              |-> 0 ]

\* Fault: the session counts as expired at the boundary instant itself.
token_expired_from_boundary(p, s, t) ==
    (s.refresh_interval - GracePeriod(p)) + s.epoch <= t

\* The lambda Stream.token_expired, read at clock value t.
token_expired(p, s, t) == (s.refresh_interval - GracePeriod(p)) + s.epoch < t

\* Fault: every event type is accepted.
is_valid_event_any(event_type, exclude_event_types) == TRUE

\* Stream.is_valid_event
is_valid_event(event_type, exclude_event_types) ==
    event_type \notin Range(exclude_event_types)

\* Fault: the eventType selector is left out of the URL.
EventTypeFilterOmitted(s) == <<>>

\* open_stream: the eventType selector of the URL ("" is <<>>).
EventTypeFilter(s) ==
    IF s.include_event_types = <<>> THEN <<>> ELSE s.include_event_types

\* open_stream: the offset selector of the URL (&whence=2 is <<>>).
OffsetFilter(s) == IF s.latest THEN <<>> ELSE <<s.offset>>

\* open_stream: the "timeout" of the GET, in seconds from the request.
\* aiohttp.ClientTimeout(total=None), no timeout, is <<>>.
ClientTimeout(p, s) == IF p = "eda" THEN <<>> ELSE <<s.refresh_interval>>

\* The yielded envelope.
Envelope(json_event) == [falcon |-> json_event]

----------------------------------------------------------------------------
(* The backend: descriptors and the lines of a body *)

\* One descriptor of the discovery response, for partition i, advertising
\* refresh interval r, received at t.
Descriptor(i, r, t) ==
    [ partition |-> i,
      token |-> i,
      refreshActiveSessionInterval |-> r,
      time |-> t ]

Blank == [kind |-> "blank", eventType |-> "", offset |-> 0]
Garbage == [kind |-> "garbage", eventType |-> "", offset |-> 0]
NoMetadata == [kind |-> "nometa", eventType |-> "", offset |-> 0]
\* a line whose metadata has an offset and no eventType
NoEventType == [kind |-> "notype", eventType |-> "", offset |-> 2]

\* The event types the backend sends on a connection: those the URL's
\* eventType selector names, every type when the selector is absent.
BackendTypes(conn) ==
    IF conn.eventType = <<>> THEN EventTypes
    ELSE EventTypes \cap Range(conn.eventType)

BackendLines(conn) ==
    {Blank, Garbage, NoMetadata, NoEventType}
      \cup { [kind |-> "event", eventType |-> t, offset |-> o] :
                t \in BackendTypes(conn), o \in Offsets }

\* line.decode().rstrip() is the empty string
IsEmptyLine(l) == l.kind = "blank"

\* json.loads and the two metadata lookups: the exception they raise, ""
\* when the line is a well-formed event.
ParseError(l) ==
    CASE l.kind = "garbage" -> "JSONDecodeError"
      [] l.kind = "nometa" -> "KeyError"
      [] l.kind = "notype" -> "KeyError"
      [] OTHER -> ""

json_loads(l) == [metadata |-> [eventType |-> l.eventType, offset |-> l.offset]]

----------------------------------------------------------------------------
(* plugins/modules/host_group.py *)

\* The module is run once and then once more with the same parameters.
Runs == {1, 2}

HostGroupNames == {"g", "h"}
HostGroupDescriptions == {<<>>, <<"d">>}
HostGroupHosts == {"h1"}

\* The parameters validate_params accepts (static groups): state, the group
\* ID host_group, name, description (None is <<>>), host_action ("" when no
\* hosts are given; hosts is HostGroupHosts otherwise).
HostGroupParams ==
    { q \in [ state : {"present", "absent"},
              host_group : {<<>>, <<1>>},
              name : {<<>>, <<"g">>},
              description : HostGroupDescriptions,
              host_action : {"", "add", "remove"} ] :
        q.host_group # <<>> \/ q.name # <<>> }

\* The backend holds no group (<<>>) or the one group of ID 1.
HostGroupBackends ==
    {<<>>} \cup { <<[id |-> 1, name |-> n, description |-> d, hosts |-> h]>> :
                    n \in HostGroupNames, d \in HostGroupDescriptions,
                    h \in SUBSET HostGroupHosts }

\* get_existing_group: the group of that ID, None (<<>>) when there is none.
get_existing_group(backend, host_group_id) ==
    IF backend # <<>> /\ backend[1].id = host_group_id THEN backend ELSE <<>>

\* find_group_by_name: the first group the filter name:'<name>' selects.
find_group_by_name(backend, name) ==
    IF backend # <<>> /\ backend[1].name = name THEN backend ELSE <<>>

group_needs_update(current_group, params) ==
    \/ params.name # <<>> /\ current_group.name # params.name[1]
    \/ params.description # <<>>
          /\ current_group.description # params.description

\* The group after update_host_groups with the parameters update_host_group
\* sends.
update_host_group(current_group, params) ==
    [current_group EXCEPT
       !.name = IF params.name # <<>> THEN params.name[1] ELSE @,
       !.description = IF params.description # <<>>
                       THEN params.description ELSE @]

\* The group create_host_groups makes from the parameters create_host_group
\* sends.
create_host_group(params) ==
    [ id |-> 1,
      name |-> params.name[1],
      description |-> params.description,
      hosts |-> {} ]

\* The group after perform_group_action add-hosts or remove-hosts.
perform_host_action(group, params) ==
    [group EXCEPT !.hosts = IF params.host_action = "add"
                            THEN @ \cup HostGroupHosts
                            ELSE @ \ HostGroupHosts]

\* One run of main against a backend whose calls succeed: the backend it
\* leaves, the calls that write, and the result reported.  A group action
\* that returned 200 sets result["changed"] = True whatever it did.
HostGroupMain(backend, params) ==
    LET current_group ==
            IF params.host_group # <<>>
            THEN get_existing_group(backend, params.host_group[1])
            ELSE find_group_by_name(backend, params.name[1])
        not_found == params.host_group # <<>> /\ current_group = <<>>
        act == params.host_action # ""
    IN IF not_found
       THEN [backend |-> backend, writes |-> {}, changed |-> FALSE,
             failed |-> TRUE]
       ELSE IF params.state = "absent"
       THEN IF current_group # <<>>
            THEN [backend |-> <<>>, writes |-> {"delete_host_groups"},
                  changed |-> TRUE, failed |-> FALSE]
            ELSE [backend |-> backend, writes |-> {}, changed |-> FALSE,
                  failed |-> FALSE]
       ELSE IF current_group # <<>>
       THEN LET upd == group_needs_update(current_group[1], params)
                g1 == IF upd THEN update_host_group(current_group[1], params)
                      ELSE current_group[1]
                g2 == IF act THEN perform_host_action(g1, params) ELSE g1
            IN [backend |-> <<g2>>,
                writes |-> (IF upd THEN {"update_host_groups"} ELSE {})
                           \cup (IF act THEN {"perform_group_action"} ELSE {}),
                changed |-> upd \/ act,
                failed |-> FALSE]
       ELSE LET g1 == create_host_group(params)
                g2 == IF act THEN perform_host_action(g1, params) ELSE g1
            IN [backend |-> <<g2>>,
                writes |-> {"create_host_groups"}
                           \cup (IF act THEN {"perform_group_action"} ELSE {}),
                changed |-> TRUE,
                failed |-> FALSE]

----------------------------------------------------------------------------
(* plugins/modules/sensor_download.py *)

\* The instances of the module that target the same destination file.
Instances == {1, 2}

\* main: lock_file(path, timeout=300, retry_interval=5), in seconds.
LockTimeout == 300
RetryInterval == 5

\* The destination file: absent, the installer of the requested hash, or a
\* file with another content.
FileStates == {"absent", "same", "other"}

\* No instance has been started.
SensorDownloadIdle ==
    [pc |-> <<>>, lock |-> <<>>, elapsed |-> <<>>, failed |-> <<>>,
     file |-> "absent", ops |-> {}]

\* fcntl.flock(handle, LOCK_EX | LOCK_NB) by instance i succeeds when no
\* other open file description holds a lock on <path>.lock.
\* The variable "lock" of an instance is "None", a handle that holds the
\* lock ("locked") or a handle that unlock_file released ("unlocked").
flock(st, i) == \A j \in Instances : st.lock[j] # "locked"

\* The file operation op of instance i, with what the history needs to know
\* about the lock at that moment.
FileOp(st, i, op) ==
    [inst |-> i, op |-> op, held |-> st.lock[i] = "locked",
     others |-> {j \in Instances \ {i} : st.lock[j] = "locked"}]

\* Fault: main goes on when lock_file returned None.
AfterLockTimeoutProceeds == "isfile"

\* main: "if not lock: module.fail_json(...)", which leaves through the
\* finally block.
AfterLockTimeout == "finally"

\* lock_file: one turn of the "while True" loop of instance i.
lock_file(i) ==
    /\ sd.pc[i] = "lock_file"
    /\ IF flock(sd, i)
       THEN sd' = [sd EXCEPT !.lock[i] = "locked", !.pc[i] = "isfile"]
       ELSE IF sd.elapsed[i] > LockTimeout
       THEN sd' = [sd EXCEPT !.pc[i] = AfterLockTimeout,
                             !.failed[i] = AfterLockTimeout = "finally"]
       ELSE sd' = [sd EXCEPT !.elapsed[i] = @ + RetryInterval]
    /\ UNCHANGED <<eventstream, hg, ns, pg>>

\* main: os.path.isfile(path) and handle_existing_file, which compares the
\* hashes, updates the permissions and exits when the content is the same.
handle_existing_file(i) ==
    /\ sd.pc[i] = "isfile"
    /\ IF sd.file = "same"
       THEN sd' = [sd EXCEPT
                     !.ops = @ \cup {FileOp(sd, i, "sha256"),
                                     FileOp(sd, i, "update_permissions")},
                     !.pc[i] = "finally"]
       ELSE sd' = [sd EXCEPT
                     !.ops = @ \cup {FileOp(sd, i, "sha256")},
                     !.pc[i] = "download"]
    /\ UNCHANGED <<eventstream, hg, ns, pg>>

\* download_sensor_installer: fail_json when the API returned an error,
\* otherwise the installer is written to the path.
download_sensor_installer(i) ==
    /\ sd.pc[i] = "download"
    /\ \E is_dict \in BOOLEAN :
          IF is_dict
          THEN sd' = [sd EXCEPT !.failed[i] = TRUE, !.pc[i] = "finally"]
          ELSE sd' = [sd EXCEPT !.file = "same",
                                !.ops = @ \cup {FileOp(sd, i, "write")},
                                !.pc[i] = "update_permissions"]
    /\ UNCHANGED <<eventstream, hg, ns, pg>>

\* main: update_permissions after the download, then exit_json.
update_permissions(i) ==
    /\ sd.pc[i] = "update_permissions"
    /\ sd' = [sd EXCEPT !.ops = @ \cup {FileOp(sd, i, "update_permissions")},
                        !.pc[i] = "finally"]
    /\ UNCHANGED <<eventstream, hg, ns, pg>>

\* main, finally: "if lock: unlock_file(lock)", and the process exits.
unlock_file(i) ==
    /\ sd.pc[i] = "finally"
    /\ sd' = [sd EXCEPT !.lock[i] = IF @ = "None" THEN @ ELSE "unlocked",
                        !.pc[i] = "exit"]
    /\ UNCHANGED <<eventstream, hg, ns, pg>>

----------------------------------------------------------------------------
(* plugins/modules/ngsiem_search.py *)

\* The elapsed time, in seconds, up to which wait_for_completion is followed.
MaxElapsed == 20

\* module.params["timeout"] (0 disables it) and ["poll_interval"].
Timeouts == {0, 10}
PollIntervals == {5}

\* What get_search_status answers: a status other than 200, or a body that
\* reports done, cancelled or neither.
SearchStatuses == {"error", "done", "cancelled", "running"}

\* The seconds a call of get_search_status may take.
Latencies == {0, 1}

\* wait_for_completion has not been called.
NgsiemIdle ==
    [pc |-> "idle", timeout |-> 0, poll_interval |-> 0, elapsed |-> 0,
     reported |-> "", stop_calls |-> 0, stop_raised |-> FALSE, msg |-> ""]

\* Fault: the timeout is applied also when it is 0.
TimedOutAlsoWhenDisabled(timeout, elapsed) == elapsed > timeout

\* wait_for_completion: "timeout > 0 and (time.time() - start_time) > timeout"
TimedOut(timeout, elapsed) == timeout > 0 /\ elapsed > timeout

\* wait_for_completion, top of the loop: on a timeout stop_search is tried,
\* what it raises is ignored, and fail_json ends the module.
wait_for_completion_check ==
    /\ ns.pc = "check"
    /\ IF TimedOut(ns.timeout, ns.elapsed)
       THEN \E raises \in BOOLEAN :
               ns' = [ns EXCEPT !.stop_calls = @ + 1,
                                !.stop_raised = raises,
                                !.msg = "Query timed out",
                                !.pc = "fail_json"]
       ELSE ns' = [ns EXCEPT !.pc = "get_search_results"]
    /\ UNCHANGED <<eventstream, hg, sd, pg>>

\* wait_for_completion: get_search_results and the tests on its answer.
wait_for_completion_poll ==
    /\ ns.pc = "get_search_results"
    /\ \E status \in SearchStatuses, latency \in Latencies :
          /\ ns.elapsed + latency <= MaxElapsed
          /\ ns' = [ns EXCEPT
                      !.elapsed = @ + latency,
                      !.reported = status,
                      !.msg = IF status = "error"
                              THEN "Failed to get search status" ELSE @,
                      !.pc = CASE status = "error" -> "fail_json"
                               [] status \in {"done", "cancelled"} -> "return"
                               [] OTHER -> "sleep"]
    /\ UNCHANGED <<eventstream, hg, sd, pg>>

\* wait_for_completion: time.sleep(poll_interval)
wait_for_completion_sleep ==
    /\ ns.pc = "sleep"
    /\ ns.elapsed + ns.poll_interval <= MaxElapsed
    /\ ns' = [ns EXCEPT !.elapsed = @ + ns.poll_interval, !.pc = "check"]
    /\ UNCHANGED <<eventstream, hg, sd, pg>>

----------------------------------------------------------------------------
(* plugins/module_utils/falconpy_utils.py: get_paginated_results_info, and
   the same loop in plugins/lookup/host_ids.py *)

\* pagination.total of the responses, the same on every page.
MaxTotal == 3

\* The resources a page may hold (at most two of them) and the offsets a
\* page may return.
Resources == {"a", "b"}
Pages == {<<>>} \cup {<<x>> : x \in Resources}
            \cup {<<x, y>> : x \in Resources, y \in Resources}
PageOffsets == {"o1", "o2"}

\* The loop has not been entered.
PaginationIdle ==
    [pc |-> "idle", total |-> 0, offset |-> <<>>, result |-> <<>>,
     running |-> TRUE, passed |-> <<>>, returned |-> <<>>, pages |-> <<>>]

\* Fault: the loop goes on until a page is empty.
RunningUntilEmpty(total, count) == TRUE

\* "if total <= len(result[list_name]): running = False"
Running(total, count) == ~(total <= count)

\* One turn of "while running": the call with the current offset, a
\* response of status 200 with any page, and what the loop does with it.
get_paginated_results_info ==
    /\ pg.pc = "while"
    /\ \E page \in Pages, next_offset \in PageOffsets :
          LET called == [pg EXCEPT !.passed = Append(@, pg.offset),
                                   !.returned = Append(@, next_offset),
                                   !.pages = Append(@, page)]
          IN IF page = <<>>
             THEN pg' = [called EXCEPT !.pc = "return"]
             ELSE LET result == pg.result \o page
                      running == Running(pg.total, Len(result))
                  IN pg' = [called EXCEPT
                              !.result = result,
                              !.offset = <<next_offset>>,
                              !.running = running,
                              !.pc = IF running THEN "while" ELSE "return"]
    /\ UNCHANGED <<eventstream, hg, sd, ns>>

\* The module has not been run.
HostGroupIdle ==
    [run |-> 0, params |-> <<>>, backend |-> <<>>, writes |-> {},
     changed |-> FALSE, failed |-> FALSE, first_failed |-> FALSE]

ModulesIdle ==
    /\ hg = HostGroupIdle
    /\ sd = SensorDownloadIdle
    /\ ns = NgsiemIdle
    /\ pg = PaginationIdle
    /\ ns = NgsiemIdle
    /\ pg = PaginationIdle

\* The event source plugin is not running.
EventstreamIdle ==
    /\ plugin = "eda"
    /\ args = <<>>
    /\ pc = "idle"
    /\ cur = 0
    /\ error = ""
    /\ falcon_session = "none"
    /\ streams = <<>>
    /\ gen = <<>>
    /\ conns = <<>>
    /\ line = <<>>
    /\ queue = <<>>
    /\ now = 0
    /\ putlog = <<>>
    /\ calls = <<>>
    /\ lines_sent = 0
    /\ api_calls = <<>>

InitHostGroup ==
    /\ EventstreamIdle
    /\ \E q \in HostGroupParams, b \in HostGroupBackends :
          hg = [HostGroupIdle EXCEPT !.params = q, !.backend = b]
    /\ sd = SensorDownloadIdle
    /\ ns = NgsiemIdle
    /\ pg = PaginationIdle

\* main, run once more with the same parameters.
host_group_main ==
    /\ hg.run + 1 \in Runs
    /\ LET r == HostGroupMain(hg.backend, hg.params)
       IN hg' = [ run |-> hg.run + 1,
                  params |-> hg.params,
                  backend |-> r.backend,
                  writes |-> r.writes,
                  changed |-> r.changed,
                  failed |-> r.failed,
                  first_failed |-> IF hg.run = 0 THEN r.failed
                                   ELSE hg.first_failed ]
    /\ UNCHANGED <<eventstream, sd, ns, pg>>

NextHostGroup == host_group_main

SpecHostGroup == InitHostGroup /\ [][NextHostGroup]_vars

InitSensorDownload ==
    /\ EventstreamIdle
    /\ hg = HostGroupIdle
    /\ ns = NgsiemIdle
    /\ pg = PaginationIdle
    /\ \E f \in FileStates :
          sd = [ pc |-> [i \in Instances |-> "lock_file"],
                 lock |-> [i \in Instances |-> "None"],
                 elapsed |-> [i \in Instances |-> 0],
                 failed |-> [i \in Instances |-> FALSE],
                 file |-> f,
                 ops |-> {} ]

NextSensorDownload ==
    \/ \E i \in Instances : lock_file(i)
    \/ \E i \in Instances : handle_existing_file(i)
    \/ \E i \in Instances : download_sensor_installer(i)
    \/ \E i \in Instances : update_permissions(i)
    \/ \E i \in Instances : unlock_file(i)

SpecSensorDownload == InitSensorDownload /\ [][NextSensorDownload]_vars

InitNgsiem ==
    /\ EventstreamIdle
    /\ hg = HostGroupIdle
    /\ sd = SensorDownloadIdle
    /\ pg = PaginationIdle
    /\ \E t \in Timeouts, p \in PollIntervals :
          ns = [NgsiemIdle EXCEPT !.pc = "check", !.timeout = t,
                                  !.poll_interval = p]

NextNgsiem ==
    \/ wait_for_completion_check
    \/ wait_for_completion_poll
    \/ wait_for_completion_sleep

SpecNgsiem == InitNgsiem /\ [][NextNgsiem]_vars

InitPagination ==
    /\ EventstreamIdle
    /\ hg = HostGroupIdle
    /\ sd = SensorDownloadIdle
    /\ ns = NgsiemIdle
    /\ \E total \in 0..MaxTotal :
          pg = [PaginationIdle EXCEPT !.pc = "while", !.total = total]

NextPagination == get_paginated_results_info

SpecPagination == InitPagination /\ [][NextPagination]_vars

----------------------------------------------------------------------------
\* The state in which main(queue, args) of revision p is called.
Start(p) ==
    /\ plugin = p
    /\ args \in [ falcon_cloud : Clouds,
                  offset : OffsetChoices,
                  latest : BOOLEAN,
                  include_event_types : IncludeChoices,
                  exclude_event_types : ExcludeChoices ]
    \* the legacy main has no "latest" and reads int(args.get("offset", 0))
    /\ plugin = "legacy" => (args.offset # <<>> /\ ~args.latest)
    /\ pc = "main"
    /\ cur = 0
    /\ error = ""
    /\ falcon_session = "none"
    /\ streams = <<>>
    /\ gen = <<>>
    /\ conns = <<>>
    /\ line = Blank
    /\ queue = <<>>
    /\ now = 0
    /\ putlog = <<>>
    /\ calls = <<>>
    /\ lines_sent = 0
    /\ api_calls = [authenticate |-> 0, no_token |-> 0,
                    list_available_streams |-> 0, refresh_stream |-> 0]
    /\ ModulesIdle

----------------------------------------------------------------------------
(* main, up to the streaming loop *)

\* Fault: falcon_cloud is not checked against REGIONS.
ConfigErrorRegionUnchecked ==
    plugin = "eda" /\ Truthy(args.offset) /\ args.latest

\* main: argument checks and construction of the client.
ConfigError ==
    \/ args.falcon_cloud \notin REGIONS
    \/ plugin = "eda" /\ Truthy(args.offset) /\ args.latest

main_start ==
    /\ pc = "main"
    /\ IF ConfigError
       THEN pc' = "raised" /\ error' = "ValueError" /\ UNCHANGED falcon_session
       ELSE pc' = "authenticate" /\ falcon_session' = "open" /\ UNCHANGED error
    /\ UNCHANGED <<plugin, args, cur, streams, gen, conns, line, queue, now,
                   putlog, calls, lines_sent,
                   api_calls,
                   modules>>

\* AIOFalconAPI.authenticate as the history sees it: one more call, and one
\* more response without "access_token" when it had none.
Authenticated(a, access_token) ==
    [a EXCEPT !.authenticate = @ + 1,
              !.no_token = IF access_token THEN @ ELSE @ + 1]

\* Fault: main authenticates again when no token came back.
AfterAuthenticateRetry(access_token) ==
    IF access_token THEN "list_available_streams" ELSE "authenticate"

\* main after authenticate(): discovery, or the ValueError of authenticate
\* leaving main.
AfterAuthenticate(access_token) ==
    IF access_token THEN "list_available_streams" ELSE "raised"

\* main: token = await falcon.authenticate()
main_authenticate ==
    /\ pc = "authenticate"
    /\ \E access_token \in BOOLEAN :
          /\ api_calls' = Authenticated(api_calls, access_token)
          /\ pc' = AfterAuthenticate(access_token)
          /\ error' = IF access_token THEN error ELSE "ValueError"
    /\ UNCHANGED <<plugin, args, cur, falcon_session, streams, gen, conns,
                   line, queue, now, putlog, calls, lines_sent,
                   modules>>

\* Where the for loop goes when it moves to stream k.
LoopPc(k, n) ==
    IF k <= n THEN "open_stream"
    ELSE IF plugin = "eda" THEN "finally" ELSE "returned"

\* Fault: an empty discovery response is an error.
EmptyDiscoveryRaises == "raised"

\* main: "if not available_streams['resources']: ... return"
EmptyDiscovery == "returned"

\* main: discovery, the early return and the list of Stream objects.
main_list_available_streams ==
    /\ pc = "list_available_streams"
    /\ api_calls' = [api_calls EXCEPT !.list_available_streams = @ + 1]
    /\ \E n \in 0..MaxStreams, r \in RefreshIntervals :
          IF n = 0
          THEN /\ pc' = EmptyDiscovery
               /\ UNCHANGED <<cur, streams, gen, calls>>
          ELSE /\ streams' = [i \in 1..n |->
                                Stream(plugin, args.offset, args.latest,
                                       args.include_event_types,
                                       Descriptor(i, r, now))]
               /\ gen' = [i \in 1..n |-> "created"]
               /\ calls' = [i \in 1..n |->
                              [open_stream |-> 0, token_expired |-> 0,
                               refresh |-> 0, refresh_failed |-> 0,
                               yield |-> 0]]
               /\ cur' = 1
               /\ pc' = "open_stream"
    /\ UNCHANGED <<plugin, args, error, falcon_session, conns, line, queue,
                   now, putlog, lines_sent,
                   modules>>

----------------------------------------------------------------------------
(* Stream.open_stream and Stream.stream_events, driven by main's loop *)

\* An exception leaves stream_events of stream i: the EDA main handles it
\* around the whole for loop, the legacy main inside the loop body.
Raise(i, e) ==
    /\ gen' = [gen EXCEPT ![i] = "raised"]
    /\ error' = e
    /\ pc' = IF plugin = "eda" THEN "finally" ELSE "stream_finally"

\* The response of the GET that open_stream issues for stream s.  The EDA
\* open_stream sends it on the client's session ("client"); the legacy one
\* on a ClientSession it creates for the call, whose state the field holds.
Response(i, s) ==
    [ stream    |-> i,
      token     |-> s.token,
      eventType |-> EventTypeFilter(s),
      offset    |-> OffsetFilter(s),
      sent      |-> 0,
      last      |-> IF OffsetFilter(s) = <<>> THEN -1 ELSE OffsetFilter(s)[1] - 1,
      ordered   |-> TRUE,
      malformed |-> FALSE,
      deadline  |-> IF ClientTimeout(plugin, s) = <<>> THEN <<>>
                    ELSE <<now + ClientTimeout(plugin, s)[1]>>,
      session   |-> IF plugin = "eda" THEN "client" ELSE "open",
      closed    |-> 0 ]

\* stream_events starts (or, reached again, repeats) with open_stream.
open_stream(i) ==
    /\ pc = "open_stream" /\ cur = i
    /\ calls' = [calls EXCEPT ![i].open_stream = @ + 1]
    /\ \E status_ok \in BOOLEAN :
          IF status_ok
          THEN /\ conns' = Append(conns, Response(i, streams[i]))
               /\ streams' = [streams EXCEPT ![i].spigot = Len(conns) + 1]
               /\ gen' = [gen EXCEPT ![i] = "running"]
               /\ pc' = "read"
               /\ UNCHANGED error
          ELSE /\ Raise(i, "ClientResponseError")
               /\ UNCHANGED <<conns, streams>>
    /\ UNCHANGED <<plugin, args, cur, falcon_session, line, queue, now,
                   putlog, lines_sent,
                   api_calls,
                   modules>>

\* The backend's record of a connection after it sent line l on it.  An
\* ordered body is one whose event offsets strictly increase from the
\* requested position.
Sent(conn, l) ==
    [conn EXCEPT !.sent = @ + 1,
                 !.ordered = @ /\ (l.kind = "event" => l.offset > conn.last),
                 !.malformed = @ \/ ParseError(l) # "",
                 !.last = IF l.kind = "event" THEN l.offset ELSE @]

\* Fault: the offset of the line is not recorded.
OffsetNotRecorded(s, l) == s.offset

\* self.offset = json_event["metadata"]["offset"]
OffsetAfterLine(s, l) == json_loads(l).metadata.offset

\* Fault: the expiry check sits inside "if decoded_line:".
AfterEmptyLineNoCheck == "read"

\* stream_events: an empty line skips the "if decoded_line:" block and
\* falls to the expiry check.
AfterEmptyLine == "token_expired"

\* Fault: a line that cannot be parsed is skipped.
AfterParseErrorSkip(e) == "token_expired"

\* stream_events: nothing catches what json.loads and the metadata lookups
\* raise.
AfterParseError(e) == "raise"

\* One iteration of "async for line in self.spigot.content", up to the
\* yield or to the expiry check.
stream_events_line(i) ==
    /\ pc = "read" /\ cur = i
    /\ lines_sent < MaxLines
    /\ \E l \in BackendLines(conns[streams[i].spigot]) :
          /\ line' = l
          /\ conns' = [conns EXCEPT ![streams[i].spigot] = Sent(@, l)]
          /\ IF IsEmptyLine(l)
             THEN /\ pc' = AfterEmptyLine
                  /\ UNCHANGED <<streams, gen, error, calls>>
             ELSE IF ParseError(l) # ""
             THEN /\ IF AfterParseError(ParseError(l)) = "raise"
                     THEN Raise(i, ParseError(l))
                     ELSE /\ pc' = AfterParseError(ParseError(l))
                          /\ UNCHANGED <<gen, error>>
                  /\ UNCHANGED <<streams, calls>>
             ELSE /\ streams' = [streams EXCEPT
                                   ![i].offset = OffsetAfterLine(streams[i], l)]
                  /\ IF is_valid_event(json_loads(l).metadata.eventType,
                                       args.exclude_event_types)
                     THEN /\ pc' = "put"
                          /\ calls' = [calls EXCEPT ![i].yield = @ + 1]
                     ELSE /\ pc' = "token_expired"
                          /\ UNCHANGED calls
                  /\ UNCHANGED <<gen, error>>
    /\ lines_sent' = lines_sent + 1
    /\ UNCHANGED <<plugin, args, cur, falcon_session, queue, now, putlog,
                   api_calls,
                   modules>>

\* The backend closes the body: the async for ends and stream_events returns.
stream_events_end(i) ==
    /\ pc = "read" /\ cur = i
    /\ gen' = [gen EXCEPT ![i] = "returned"]
    /\ IF plugin = "eda"
       THEN cur' = i + 1 /\ pc' = LoopPc(i + 1, Len(streams))
       ELSE cur' = cur /\ pc' = "stream_finally"
    /\ UNCHANGED <<plugin, args, error, falcon_session, streams, conns, line,
                   queue, now, putlog, calls, lines_sent,
                   api_calls,
                   modules>>

\* The read of the next line fails (aiohttp.ClientPayloadError).
stream_events_error(i) ==
    /\ pc = "read" /\ cur = i
    /\ Raise(i, "ClientPayloadError")
    /\ UNCHANGED <<plugin, args, cur, falcon_session, streams, conns, line,
                   queue, now, putlog, calls, lines_sent,
                   api_calls,
                   modules>>

\* The total timeout of the GET elapses while stream_events waits for the
\* next line: the read raises asyncio.TimeoutError.
stream_events_timeout(i) ==
    /\ pc = "read" /\ cur = i
    /\ conns[streams[i].spigot].deadline # <<>>
    /\ now >= conns[streams[i].spigot].deadline[1]
    /\ Raise(i, "TimeoutError")
    /\ UNCHANGED <<plugin, args, cur, falcon_session, streams, conns, line,
                   queue, now, putlog, calls, lines_sent, api_calls,
                   modules>>

\* Fault: a non-blocking put, which drops the event when the queue is full.
PutNeverSuspends(q) == FALSE

\* await queue.put(event) suspends while the queue is full.
PutSuspends(q) == Len(q) >= QueueSize

\* main: await queue.put(event) for the envelope stream_events yielded.
main_put(i) ==
    /\ pc = "put" /\ cur = i
    /\ ~PutSuspends(queue)
    /\ LET put == [stream |-> i,
                   lineno |-> conns[streams[i].spigot].sent,
                   event  |-> Envelope(json_loads(line))]
       IN IF Len(queue) < QueueSize
          THEN queue' = Append(queue, put) /\ putlog' = Append(putlog, put)
          ELSE UNCHANGED <<queue, putlog>>
    /\ pc' = "sleep"
    /\ UNCHANGED <<plugin, args, cur, error, falcon_session, streams, gen,
                   conns, line, now, calls, lines_sent,
                   api_calls,
                   modules>>

\* Fault: the generator yields the same event again.
ResumeAtYield == "put"

\* Where stream_events resumes once main asks for the next event: at the
\* statement after the yield.
ResumeAfterYield == "token_expired"

\* main: await asyncio.sleep(delay); the generator is then resumed.
main_sleep(i) ==
    /\ pc = "sleep" /\ cur = i
    /\ pc' = ResumeAfterYield
    /\ UNCHANGED <<plugin, args, cur, error, falcon_session, streams, gen,
                   conns, line, queue, now, putlog, calls, lines_sent,
                   api_calls,
                   modules>>

\* stream_events: if self.token_expired()
stream_events_token_expired(i) ==
    /\ pc = "token_expired" /\ cur = i
    /\ pc' = IF token_expired(plugin, streams[i], now) THEN "refresh" ELSE "read"
    /\ calls' = [calls EXCEPT ![i].token_expired = @ + 1]
    /\ UNCHANGED <<plugin, args, cur, error, falcon_session, streams, gen,
                   conns, line, queue, now, putlog, lines_sent,
                   api_calls,
                   modules>>

\* Fault: a refresh also rewinds the stream to offset 0.
RefreshedFromStart(s, t) == [s EXCEPT !.epoch = t, !.offset = 0]

\* Stream.refresh: what a successful refresh_stream changes.
Refreshed(s, t) == [s EXCEPT !.epoch = t]

\* Fault: the result of refresh() is ignored.
AfterRefreshIgnored(refreshed) == "read"

\* Fault: a successful refresh reopens the stream.
AfterRefreshReopen(refreshed) == IF refreshed THEN "open_stream" ELSE "raise"

\* stream_events: continue on a successful refresh, raise otherwise.
AfterRefresh(refreshed) == IF refreshed THEN "read" ELSE "raise"

\* stream_events: refresh = await self.refresh(), and what follows it.
\* A request on a closed ClientSession raises RuntimeError.
refresh(i) ==
    /\ pc = "refresh" /\ cur = i
    /\ \E access_token \in BOOLEAN, status_ok \in BOOLEAN :
          LET refreshed == falcon_session = "open" /\ access_token /\ status_ok
          IN /\ api_calls' =
                  IF falcon_session # "open" THEN api_calls
                  ELSE [Authenticated(api_calls, access_token) EXCEPT
                          !.refresh_stream = IF access_token THEN @ + 1 ELSE @]
             /\ calls' = [calls EXCEPT
                            ![i].refresh = @ + 1,
                            ![i].refresh_failed = IF refreshed THEN @ ELSE @ + 1]
             /\ streams' = IF refreshed
                           THEN [streams EXCEPT ![i] = Refreshed(@, now)]
                           ELSE streams
             /\ IF falcon_session # "open"
                THEN Raise(i, "RuntimeError")
                ELSE IF ~access_token
                THEN Raise(i, "ValueError")
                ELSE IF AfterRefresh(refreshed) = "raise"
                THEN Raise(i, "ValueError")
                ELSE pc' = AfterRefresh(refreshed) /\ UNCHANGED <<gen, error>>
    /\ UNCHANGED <<plugin, args, cur, falcon_session, conns, line, queue, now,
                   putlog, lines_sent,
                   modules>>

----------------------------------------------------------------------------
(* Cleanup *)

Close(conn) == [conn EXCEPT !.closed = @ + 1]

\* The except clauses of main name asyncio.TimeoutError, aiohttp.ClientError
\* and Exception: asyncio.CancelledError, a BaseException, passes them and
\* leaves main once the finally block has run.
Propagates(e) == e = "CancelledError"

\* Fault: the finally block closes the spigot of the current stream only.
CurrentSpigotOnly == {streams[k].spigot : k \in DOMAIN streams \cap {cur}} \ {0}

\* EDA main, finally: "for stream in streams: if stream.spigot:"
SpigotsToClose == {streams[k].spigot : k \in DOMAIN streams} \ {0}

\* EDA main, finally: close every stream's spigot that is set, then the
\* client session.
main_finally ==
    /\ pc = "finally"
    /\ conns' = [c \in DOMAIN conns |->
                   IF c \in SpigotsToClose THEN Close(conns[c]) ELSE conns[c]]
    /\ falcon_session' = "closed"
    /\ pc' = IF Propagates(error) THEN "raised" ELSE "returned"
    /\ UNCHANGED <<plugin, args, cur, error, streams, gen, line, queue, now,
                   putlog, calls, lines_sent,
                   api_calls,
                   modules>>

\* Legacy main, finally of the loop body: stream.spigot.close() (an
\* AttributeError when spigot is None), falcon.close(), next stream.
main_stream_finally(i) ==
    /\ pc = "stream_finally" /\ cur = i
    /\ IF streams[i].spigot = 0
       THEN /\ pc' = "raised" /\ error' = "AttributeError"
            /\ UNCHANGED <<conns, falcon_session, cur>>
       ELSE /\ conns' = [conns EXCEPT ![streams[i].spigot] = Close(@)]
            /\ falcon_session' = "closed"
            /\ IF Propagates(error)
               THEN pc' = "raised" /\ cur' = cur
               ELSE cur' = i + 1 /\ pc' = LoopPc(i + 1, Len(streams))
            /\ UNCHANGED error
    /\ UNCHANGED <<plugin, args, streams, gen, line, queue, now, putlog,
                   calls, lines_sent,
                   api_calls,
                   modules>>

----------------------------------------------------------------------------
(* Environment *)

\* The rule engine takes the oldest envelope off the queue.
queue_get ==
    /\ queue # <<>>
    /\ queue' = Tail(queue)
    /\ UNCHANGED <<plugin, args, pc, cur, error, falcon_session, streams, gen,
                   conns, line, now, putlog, calls, lines_sent,
                   api_calls,
                   modules>>

\* The task running main is cancelled: asyncio.CancelledError is raised at
\* the await on which main is suspended, inside stream_events when that
\* await is the generator's own, in main on queue.put and asyncio.sleep.
\* Before the try statement nothing handles it.
cancel ==
    /\ error # "CancelledError"
    /\ error' = "CancelledError"
    /\ \/ /\ pc \in {"authenticate", "list_available_streams"}
          /\ pc' = "raised"
          /\ UNCHANGED gen
       \/ /\ pc \in {"open_stream", "read", "refresh"}
          /\ gen' = [gen EXCEPT ![cur] = "raised"]
          /\ pc' = IF plugin = "eda" THEN "finally" ELSE "stream_finally"
       \/ /\ (pc = "put" /\ PutSuspends(queue)) \/ pc = "sleep"
          /\ pc' = IF plugin = "eda" THEN "finally" ELSE "stream_finally"
          /\ UNCHANGED gen
    /\ UNCHANGED <<plugin, args, cur, falcon_session, streams, conns, line,
                   queue, now, putlog, calls, lines_sent, api_calls,
                   modules>>

\* Time passes while main is suspended on the body or on a full queue.
Tick ==
    /\ pc = "read" \/ (pc = "put" /\ PutSuspends(queue))
    /\ \E t \in InstantsOf(plugin) :
          /\ t > now
          /\ \A u \in InstantsOf(plugin) : u > now => t <= u
          /\ now' = t
    /\ UNCHANGED <<plugin, args, pc, cur, error, falcon_session, streams, gen,
                   conns, line, queue, putlog, calls, lines_sent,
                   api_calls,
                   modules>>

\* The steps of Stream.stream_events and of the loop around it, which the
\* two revisions share.
Streaming ==
    \/ \E i \in DOMAIN streams : open_stream(i)
    \/ \E i \in DOMAIN streams : stream_events_line(i)
    \/ \E i \in DOMAIN streams : stream_events_end(i)
    \/ \E i \in DOMAIN streams : stream_events_error(i)
    \/ \E i \in DOMAIN streams : main_put(i)
    \/ \E i \in DOMAIN streams : main_sleep(i)
    \/ \E i \in DOMAIN streams : stream_events_token_expired(i)
    \/ \E i \in DOMAIN streams : refresh(i)

\* The EDA plugin (src/extensions/eda/plugins/event_source/eventstream.py)
Init == Start("eda")

Next ==
    \/ main_start
    \/ main_authenticate
    \/ main_list_available_streams
    \/ Streaming
    \/ main_finally
    \/ cancel
    \/ queue_get
    \/ Tick

Spec == Init /\ [][Next]_vars

\* The legacy plugin (src/plugins/event_source/eventstream.py)
InitLegacy == Start("legacy")

NextLegacy ==
    \/ main_start
    \/ main_authenticate
    \/ main_list_available_streams
    \/ Streaming
    \/ \E i \in DOMAIN streams : main_stream_finally(i)
    \/ \E i \in DOMAIN streams : stream_events_timeout(i)
    \/ cancel
    \/ queue_get
    \/ Tick

SpecLegacy == InitLegacy /\ [][NextLegacy]_vars

\* Stream.refresh called on a Stream of the EDA plugin whose connection is
\* open, at any clock reading: the session may or may not have expired.
InitRefresh ==
    /\ plugin = "eda"
    /\ args \in [ falcon_cloud : Clouds \cap REGIONS,
                  offset : OffsetChoices,
                  latest : BOOLEAN,
                  include_event_types : IncludeChoices,
                  exclude_event_types : ExcludeChoices ]
    /\ ~(Truthy(args.offset) /\ args.latest)
    /\ pc = "refresh"
    /\ cur = 1
    /\ error = ""
    /\ falcon_session = "open"
    /\ now \in Instants
    /\ \E r \in AdvertisedIntervals, e \in Instants, o \in {0} \cup Offsets :
          /\ e <= now
          /\ LET s == Stream(plugin, args.offset, args.latest,
                             args.include_event_types, Descriptor(1, r, e))
             IN /\ conns = <<Response(1, s)>>
                /\ streams = <<[s EXCEPT !.spigot = 1, !.offset = o]>>
    /\ gen = <<"running">>
    /\ line = Blank
    /\ queue = <<>>
    /\ putlog = <<>>
    /\ calls = <<[open_stream |-> 1, token_expired |-> 0, refresh |-> 0,
                  refresh_failed |-> 0, yield |-> 0]>>
    /\ lines_sent = 0
    /\ api_calls = [authenticate |-> 1, no_token |-> 0,
                    list_available_streams |-> 1, refresh_stream |-> 0]
    /\ ModulesIdle

NextRefresh == \E i \in DOMAIN streams : refresh(i)

SpecRefresh == InitRefresh /\ [][NextRefresh]_vars

----------------------------------------------------------------------------
(* Properties *)

\* The connection stream i reads from (defined once open_stream succeeded).
Spigot(i) == conns[streams[i].spigot]

\* This step is stream i's stream_events taking one line off the body.
LineRead(i) == pc = "read" /\ cur = i /\ lines_sent' = lines_sent + 1

\* The queue.put calls made for stream i, in order.
PutsOf(i) == SelectSeq(putlog, LAMBDA e : e.stream = i)

\* The filter of the specification: include-set I, exclude-set E.
Passes(T) ==
    /\ args.include_event_types = <<>> \/ T \in Range(args.include_event_types)
    /\ T \notin Range(args.exclude_event_types)

\* C1 (as stated): for any sequence of lines, offsets that go down
\* included, no step of stream_events lowers Stream.offset.
C1_OffsetNeverDecreases ==
    [][\A i \in DOMAIN streams : streams'[i].offset >= streams[i].offset]_vars

\* C1 (amended): while the event offsets the backend sends on the
\* connection only go up from the requested starting position, no step
\* lowers Stream.offset.
C1_OffsetMonotoneOnOrderedBody ==
    [][\A i \in DOMAIN streams :
          (streams'[i].spigot # 0 /\ conns'[streams'[i].spigot].ordered)
             => streams'[i].offset >= streams[i].offset]_vars

C1_Witness ==
    \E i \in DOMAIN streams :
       /\ streams[i].spigot # 0
       /\ Spigot(i).ordered
       /\ Spigot(i).sent = 2
       /\ Len(PutsOf(i)) = 2
       /\ streams[i].offset = 2

\* C2: a step that reads a well-formed event line leaves Stream.offset equal
\* to the line's metadata.offset, delivered or filtered out; a step that
\* reads an empty line leaves Stream.offset as it was.
C2_OffsetIsLastLineOffset ==
    [][\A i \in DOMAIN streams :
          LineRead(i) =>
             /\ line'.kind = "event" => streams'[i].offset = line'.offset
             /\ line'.kind = "blank" => streams'[i].offset = streams[i].offset]_vars

C2_Witness ==
    /\ pc = "token_expired"
    /\ line.kind = "event"
    /\ line.eventType \in Range(args.exclude_event_types)
    /\ line.offset = 2
    /\ streams[cur].offset = 2
    /\ putlog = <<>>

C4_ExcludedNeverDelivered ==
    /\ \A k \in DOMAIN putlog :
          putlog[k].event.falcon.metadata.eventType
             \notin Range(args.exclude_event_types)
    /\ \A k \in DOMAIN queue :
          queue[k].event.falcon.metadata.eventType
             \notin Range(args.exclude_event_types)
    /\ pc = "put" => line.eventType \notin Range(args.exclude_event_types)

C4_Witness ==
    /\ args.include_event_types = <<"A">>
    /\ args.exclude_event_types = <<"A">>
    /\ pc = "read"
    /\ line.kind = "event"
    /\ line.eventType = "A"
    /\ lines_sent = 1
    /\ putlog = <<>>

\* The positions of main inside the streaming loop.
InLoop == pc \in {"open_stream", "read", "put", "sleep", "token_expired", "refresh"}

\* C5: the envelopes put for one partition are in the order in which their
\* lines were read, no line is put twice, and on an ordered body the
\* offsets put are strictly increasing.
C5_DeliveredInReadOrder ==
    \A k, m \in DOMAIN putlog :
       (k < m /\ putlog[k].stream = putlog[m].stream)
          => /\ putlog[k].lineno < putlog[m].lineno
             /\ Spigot(putlog[k].stream).ordered
                   => putlog[k].event.falcon.metadata.offset
                        < putlog[m].event.falcon.metadata.offset

C5_Witness ==
    \E i \in DOMAIN streams :
       /\ Len(PutsOf(i)) = 2
       /\ Spigot(i).ordered
       /\ PutsOf(i)[1].event.falcon.metadata.offset = 1
       /\ PutsOf(i)[2].event.falcon.metadata.offset = 2

\* C6: the queue never holds more than its size; as long as main has not
\* been cancelled, every event stream_events yielded has been put exactly
\* once, except the one main is suspended on; and once that put has
\* completed the envelope last put is the one of the line last read, so no
\* line was read while the put was pending.
C6_PutBlocksNeverDrops ==
    /\ Len(queue) <= QueueSize
    /\ \A i \in DOMAIN streams :
          ~Propagates(error) =>
             Len(PutsOf(i)) =
                calls[i].yield - (IF pc = "put" /\ cur = i THEN 1 ELSE 0)
    /\ pc = "sleep"
          => /\ putlog # <<>>
             /\ putlog[Len(putlog)] = [stream |-> cur,
                                       lineno |-> Spigot(cur).sent,
                                       event  |-> Envelope(json_loads(line))]

C6_Witness ==
    /\ pc = "put"
    /\ PutSuspends(queue)
    /\ now > 0
    /\ Len(putlog) = 1
    /\ calls[cur].yield = 2

\* C7 (as stated): every partition has its own read loop, so a partition
\* whose stream_events has not started can open its connection while main
\* is reading another partition.
C7_PartitionsReadConcurrently ==
    \A j \in DOMAIN streams :
       (InLoop /\ gen[j] = "created") => ENABLED open_stream(j)

\* C8 (as stated): when main is over, a partition that ended in a streaming
\* error (after its connection was opened) has not kept any other
\* discovered partition from being opened.
C8_ErrorScopedToPartition ==
    \A i, j \in DOMAIN streams :
       (pc = "returned" /\ gen[i] = "raised" /\ streams[i].spigot # 0)
          => gen[j] # "created"

\* C9: once a refresh() of stream i has failed, stream_events of i has
\* raised, and from then on refresh() is not called for i again, no line is
\* read from i's body and nothing is put for i.
C9_FailedRefreshIsFatal ==
    [][\A i \in DOMAIN streams :
          /\ (i \in DOMAIN calls' /\ calls'[i].refresh_failed > 0)
                => (gen'[i] = "raised" /\ ~(cur' = i /\ InLoop'))
          /\ calls[i].refresh_failed > 0
                => /\ calls'[i] = calls[i]
                   /\ Spigot(i)'.sent = Spigot(i).sent
                   /\ PutsOf(i)' = PutsOf(i)
                   /\ streams'[i].offset = streams[i].offset]_vars

C9_Witness ==
    \E i \in DOMAIN streams :
       /\ calls[i].refresh_failed = 1
       /\ calls[i].refresh = 1
       /\ error = "ValueError"
       /\ pc = "returned"
       /\ lines_sent < MaxLines

C11_ExpiryCheckedAfterEveryLine ==
    [][ \A i \in DOMAIN streams :
           /\ (pc = "read" /\ cur = i)
                 => calls[i].token_expired = Spigot(i).sent
           /\ (pc = "token_expired" /\ cur = i /\ pc' # pc)
                 => pc' = (IF token_expired(plugin, streams[i], now)
                           THEN "refresh" ELSE "read")
           /\ (pc = "refresh" /\ cur = i)
                 => /\ lines_sent' = lines_sent
                    /\ (pc' # pc /\ ~Propagates(error'))
                          => calls'[i].refresh = calls[i].refresh + 1
      ]_vars

C11_Witness ==
    \E i \in DOMAIN streams :
       /\ pc = "read" /\ cur = i
       /\ line = Blank
       /\ Spigot(i).sent = 1
       /\ calls[i].token_expired = 1
       /\ calls[i].refresh = 1
       /\ streams[i].epoch = 1741


\* The instant epoch + refresh_interval - grace of stream i.
Boundary(i) ==
    streams[i].epoch + streams[i].refresh_interval - GracePeriod(plugin)

\* C12 (as stated): the expiry check of stream_events takes the refresh
\* branch exactly when now >= epoch + refresh_interval - 60, the instant
\* now = epoch + refresh_interval - 60 included.
C12_ExpiredFromBoundary ==
    [][ \A i \in DOMAIN streams :
           (pc = "token_expired" /\ cur = i /\ pc' # pc)
              => (pc' = "refresh" <=> now >= Boundary(i)) ]_vars

\* C12 (amended): the expiry check of stream_events takes the refresh branch
\* exactly when now > epoch + refresh_interval - 60; at the instant
\* now = epoch + refresh_interval - 60 the session is not yet expired.
C12_ExpiredAfterBoundary ==
    [][ \A i \in DOMAIN streams :
           (pc = "token_expired" /\ cur = i /\ pc' # pc)
              => /\ pc' = "refresh" <=> now > Boundary(i)
                 /\ now = Boundary(i) => pc' = "read" ]_vars

\* The check is evaluated at the boundary instant, after a line was read.
C12_Witness ==
    \E i \in DOMAIN streams :
       /\ pc = "token_expired" /\ cur = i
       /\ now = Boundary(i)
       /\ now > 0
       /\ Spigot(i).sent >= 1


C14_ResourcesClosedAtReturn ==
    pc \in {"returned", "raised"}
       => \A c \in DOMAIN conns :
             /\ conns[c].closed >= 1
             /\ conns[c].session # "open"


\* No call has been made on the AIOFalconAPI client and no stream request
\* has been sent.
NoNetworkCall ==
    /\ api_calls = [authenticate |-> 0, no_token |-> 0,
                    list_available_streams |-> 0, refresh_stream |-> 0]
    /\ \A i \in DOMAIN calls : calls[i].open_stream = 0
    /\ conns = <<>>

\* C15 (as stated): when main is given an offset, whatever its integer
\* value, together with latest = true, it raises ValueError before the
\* client is constructed and before any HTTP request.
C15_OffsetWithLatestRejected ==
    (args.offset # <<>> /\ args.latest /\ pc # "main")
       => /\ pc = "raised" /\ error = "ValueError"
          /\ falcon_session = "none"
          /\ NoNetworkCall


\* C16: when discovery has answered with an empty list, main has returned
\* without an exception, no Stream was created, no connection was opened and
\* nothing was put on the queue.
C16_EmptyDiscoveryReturns ==
    (api_calls.list_available_streams = 1 /\ streams = <<>>)
       => /\ pc = "returned" /\ error = ""
          /\ calls = <<>> /\ gen = <<>>
          /\ conns = <<>>
          /\ putlog = <<>> /\ queue = <<>>

C16_Witness ==
    /\ api_calls.list_available_streams = 1
    /\ streams = <<>>
    /\ pc = "returned"
    /\ api_calls.authenticate = 1

\* C17: when falcon_cloud is not one of REGIONS, main has raised ValueError
\* as soon as it has started, without constructing the client and without
\* an authentication, discovery or stream request.
C17_UnknownRegionRejected ==
    (args.falcon_cloud \notin REGIONS /\ pc # "main")
       => /\ pc = "raised" /\ error = "ValueError"
          /\ falcon_session = "none"
          /\ NoNetworkCall
          /\ streams = <<>>

C17_Witness ==
    /\ args.falcon_cloud \notin REGIONS
    /\ ~(Truthy(args.offset) /\ args.latest)
    /\ pc = "raised"
    /\ error = "ValueError"

\* C18: when the first authenticate() got a response without access_token,
\* main has raised the ValueError of authenticate: authenticate was called
\* once, list_available_streams not at all, no Stream was created, no
\* connection opened and nothing put on the queue.
C18_AuthFailureIsFatal ==
    (api_calls.no_token >= 1 /\ api_calls.list_available_streams = 0)
       => /\ pc = "raised" /\ error = "ValueError"
          /\ api_calls.authenticate = 1
          /\ streams = <<>> /\ calls = <<>>
          /\ conns = <<>>
          /\ putlog = <<>> /\ queue = <<>>

C18_Witness ==
    /\ api_calls.no_token = 1
    /\ api_calls.list_available_streams = 0
    /\ pc = "raised"
    /\ falcon_session = "open"


\* C19: a line that is not valid JSON, or whose metadata lacks eventType or
\* offset, ends stream_events with the exception of the parse: the line is
\* not delivered and leaves Stream.offset as it was; and on a connection
\* that has carried such a line no further line is read, nothing more is
\* delivered and Stream.offset no longer changes.
C19_MalformedLineIsFatal ==
    [][ \A i \in DOMAIN streams :
           /\ (LineRead(i) /\ ParseError(line') # "")
                 => /\ gen'[i] = "raised"
                    /\ error' = ParseError(line')
                    /\ streams'[i].offset = streams[i].offset
                    /\ calls'[i].yield = calls[i].yield
                    /\ putlog' = putlog
           /\ (streams[i].spigot # 0 /\ Spigot(i).malformed)
                 => /\ conns'[streams[i].spigot].sent = Spigot(i).sent
                    /\ PutsOf(i)' = PutsOf(i)
                    /\ streams'[i].offset = streams[i].offset
                    /\ gen'[i] = "raised" ]_vars

\* An event with offset 1 was read, then a line without eventType whose
\* metadata carries offset 2.
C19_Witness ==
    \E i \in DOMAIN streams :
       /\ streams[i].spigot # 0
       /\ Spigot(i).malformed
       /\ Spigot(i).sent = 2
       /\ line = NoEventType
       /\ streams[i].offset = 1
       /\ error = "KeyError"
       /\ pc = "returned"


\* This step is a call of stream i's refresh() running to its end.
RefreshCall(i) ==
    pc = "refresh" /\ cur = i /\ calls'[i].refresh = calls[i].refresh + 1

\* C20: a call of refresh(), whether it succeeds or fails and whether or
\* not the session had expired, changes no field of the Stream other than
\* epoch and token (so not offset, the filters, the partition or the
\* spigot), leaves the filters of main's arguments and every connection as
\* they were, and changes nothing at all when it fails.
C20_RefreshFrame ==
    [][ \A i \in DOMAIN streams :
           RefreshCall(i)
              => /\ [streams'[i] EXCEPT !.epoch = streams[i].epoch,
                                        !.token = streams[i].token] = streams[i]
                 /\ \A j \in DOMAIN streams : j # i => streams'[j] = streams[j]
                 /\ conns' = conns
                 /\ args' = args
                 /\ calls'[i].refresh_failed # calls[i].refresh_failed
                       => streams' = streams ]_vars

\* refresh() succeeded on a session that had not expired.
C20_Witness ==
    /\ pc = "read"
    /\ calls[1].refresh = 1
    /\ calls[1].refresh_failed = 0
    /\ api_calls.refresh_stream = 1
    /\ now = 0
    /\ streams[1].offset = 2
    /\ streams[1].spigot = 1


\* C21 (as stated): no GET of open_stream carries a client timeout, and no
\* stream_events is ended by one.
C21_NoClientTimeout ==
    /\ \A c \in DOMAIN conns : conns[c].deadline = <<>>
    /\ error # "TimeoutError"


\* C22 (as stated): when main is over and a partition failed before its
\* connection was opened (its spigot is still None), the cleanup has raised
\* no exception of its own and has closed the client session.
C22_CleanupNeverMasks ==
    \A i \in DOMAIN streams :
       (pc \in {"returned", "raised"} /\ gen[i] = "raised"
          /\ streams[i].spigot = 0)
          => /\ error # "AttributeError"
             /\ falcon_session = "closed"


\* C23 (as stated): whatever interval the backend advertised, a Stream is
\* not expired at the instant of its epoch, that is when it has just been
\* created or successfully refreshed.
C23_NotExpiredAtEpoch ==
    \A i \in DOMAIN streams :
       /\ GracePeriod(plugin) < streams[i].refresh_interval
       /\ streams[i].epoch = now => ~token_expired(plugin, streams[i], now)


\* C24 (as stated): when the first run of host_group succeeded, the second
\* run with the same parameters succeeds, issues no create, update, delete
\* or group-action call, and reports changed = false.
C24_SecondRunChangesNothing ==
    (hg.run = 2 /\ ~hg.first_failed)
       => /\ ~hg.failed
          /\ hg.writes = {}
          /\ ~hg.changed


\* C25: at most one instance is between acquiring the lock and releasing
\* it; every operation on the destination file (the hash of the existing
\* file, the write, the permission update) was made by the one instance
\* holding the lock; an instance that gave up on the lock has failed and
\* has made no operation on the file; and an instance that has exited
\* holds no lock.
C25_LockGuardsTheFile ==
    /\ Cardinality({i \in DOMAIN sd.pc :
                      sd.pc[i] \in {"isfile", "download", "update_permissions"}
                        \/ sd.lock[i] = "locked"}) <= 1
    /\ \A o \in sd.ops : o.held /\ o.others = {}
    /\ \A i \in DOMAIN sd.pc :
          /\ sd.lock[i] = "None"
                => /\ sd.pc[i] \in {"lock_file", "finally", "exit"}
                   /\ sd.pc[i] # "lock_file"
                         => sd.failed[i] /\ sd.elapsed[i] > LockTimeout
                   /\ \A o \in sd.ops : o.inst # i
          /\ sd.pc[i] = "exit" => sd.lock[i] # "locked"

\* Instance 2 gave up after the timeout while instance 1 was still
\* downloading under the lock.
C25_Witness ==
    /\ sd.pc = <<"download", "exit">>
    /\ sd.lock = <<"locked", "None">>
    /\ sd.failed[2]
    /\ sd.elapsed[2] > LockTimeout
    /\ sd.ops = {[inst |-> 1, op |-> "sha256", held |-> TRUE, others |-> {}]}


\* C26: with timeout > 0, a turn of the loop that finds the elapsed time
\* above timeout (the job having reported neither done nor cancelled) calls
\* stop_search once and fails the module with the timeout message, whether
\* or not stop_search raised; the timeout message is given in no other
\* case, stop_search is never called a second time, and with timeout = 0
\* the module never fails with the timeout message.
C26_TimeoutStopsSearchOnce ==
    [][ /\ (ns.pc = "check" /\ ns.timeout > 0 /\ ns.elapsed > ns.timeout)
              => /\ ns'.pc = "fail_json"
                 /\ ns'.msg = "Query timed out"
                 /\ ns'.stop_calls = ns.stop_calls + 1
        /\ ns'.stop_calls <= 1
        /\ ns'.msg = "Query timed out"
              => /\ ns'.timeout > 0 /\ ns'.elapsed > ns'.timeout
                 /\ ns'.stop_calls = 1
                 /\ ns'.pc = "fail_json"
                 /\ ns'.reported \notin {"done", "cancelled"}
        /\ ns'.timeout = 0
              => ns'.msg # "Query timed out" /\ ns'.stop_calls = 0 ]_vars

\* The search timed out and stop_search raised.
C26_Witness ==
    /\ ns.pc = "fail_json"
    /\ ns.msg = "Query timed out"
    /\ ns.stop_raised
    /\ ns.stop_calls = 1
    /\ ns.reported = "running"

RECURSIVE Concat(_)
Concat(pages) ==
    IF pages = <<>> THEN <<>> ELSE Head(pages) \o Concat(Tail(pages))

\* C30: every turn of the loop either ends it or adds at least one resource;
\* the loop is still running only while the last page was not empty and
\* fewer than total resources are accumulated, and it has ended only on an
\* empty page or with at least total resources, so it makes at most
\* max(1, total) calls.  The first call passes no offset and every later
\* call the offset the previous page returned; the result is the pages
\* concatenated in order.
C30_PaginationTerminates ==
    [][ /\ pg.pc = "while"
              => pg'.pc = "return" \/ Len(pg'.result) > Len(pg.result)
        /\ (pg'.pc = "while" /\ pg'.pages # <<>>)
              => /\ Len(pg'.result) < pg'.total
                 /\ pg'.pages[Len(pg'.pages)] # <<>>
        /\ pg'.pc = "return"
              => \/ pg'.pages[Len(pg'.pages)] = <<>>
                 \/ Len(pg'.result) >= pg'.total
        /\ Len(pg'.pages) <= (IF pg'.total > 1 THEN pg'.total ELSE 1)
        /\ \A k \in DOMAIN pg'.passed :
              pg'.passed[k] = (IF k = 1 THEN <<>> ELSE <<pg'.returned[k - 1]>>)
        /\ pg'.result = Concat(pg'.pages) ]_vars

\* Three pages of one resource each, fetched with the offsets returned.
C30_Witness ==
    /\ pg.pc = "return"
    /\ pg.total = 3
    /\ pg.pages = << <<"a">>, <<"b">>, <<"a">> >>
    /\ pg.result = <<"a", "b", "a">>
    /\ pg.passed = << <<>>, <<"o1">>, <<"o2">> >>
    /\ ~pg.running


\* C27 (as stated): while stream i's connection is open and main is
\* suspended on the read of the next line or on a full queue, an expired
\* session can be refreshed at once: refresh() is the program's to call
\* without a further line arriving or the queue being emptied.
C27_RefreshWithoutFurtherLine ==
    \A i \in DOMAIN streams :
       ( /\ cur = i
         /\ pc = "read" \/ (pc = "put" /\ PutSuspends(queue))
         /\ token_expired(plugin, streams[i], now) )
          => ENABLED refresh(i)


\* C28 (as stated): when main is over and the AIOFalconAPI client had been
\* constructed, its session is closed.
C28_SessionClosedOnEveryExit ==
    (pc \in {"returned", "raised"} /\ falcon_session # "none")
       => falcon_session = "closed"

\* C29 (as stated): while main is still in its loop over the partitions,
\* opening, reading, delivering or refreshing one of them, the client
\* session is open.
C29_SessionOpenUntilLastPartition ==
    InLoop => falcon_session = "open"

====
